---- MODULE Spec2Model ----
(***************************************************************************)
(* A model of disco.worker.Worker (lib/disco/worker/__init__.py).          *)
(*                                                                         *)
(* Two specifications share the module:                                    *)
(*   Spec      the worker runtime: Worker.main driving Worker.start,       *)
(*             Worker.run and Worker.end for one task, one statement of    *)
(*             the code per step, every call able to raise;                *)
(*   SpecPack, SpecLookup, SpecEnv  the client side: Worker.jobdict,       *)
(*             Worker.getitem and Worker.jobenvs applied to a              *)
(*             specification, a job and call-time arguments;               *)
(*   SpecOverrides  the runtime again, for job packs whose job and         *)
(*             call-time arguments carry map / reduce themselves;          *)
(*   SpecTimeout  the runtime facing a controller that stops answering.    *)
(***************************************************************************)
EXTENDS Integers, Sequences, FiniteSets, TLC

\* Bounds of the model (not program constants).
MaxPartitions == 3
MaxId == 1
MaxInputs == 2
MaxCalls == 2
MaxPath == 2

\* The timeout of the reads from the controller: NonBlockingInput(sys.stdin, timeout=600)
ReadTimeout == 600

\* Python's None, and a function object stored under 'map' or 'reduce'.
None == "None"
Fn == "fn"

VARIABLES
    worker,      \* the Worker dict: key -> value
    job,         \* the attributes the job object exposes: key -> value
    jobargs,     \* the call-time keyword arguments: key -> value
    mode,        \* task.mode of the task handed out by Task.request()
    pc,          \* the statement Worker.main is about to execute
    exc,         \* the exception in flight ("none" when there is none)
    failedAt,    \* the statement that raised first ("none" when none did)
    handlerExc,  \* the exception raised inside an except clause of main
                 \* ("none" when the clause ran to its raise statement)
    events,      \* what the process did, in order: messages emitted, requests
                 \* made, calls entered
    input,       \* the resolved input list: one index (a set of partition ids) per dir
    partitioned, \* ispartitioned(input)
    desc,        \* the last result of Worker.jobdict
    lookup,      \* the last result of Worker.getitem
    settings,    \* job.settings: name -> value, a value being the tuple of its
                 \* ':'-separated parts
    envs,        \* what the calls of Worker.jobenvs returned, in order
    controller,  \* whether the controller answers the worker's requests
    waited       \* time units the pending read from the controller has waited

vars == <<worker, job, jobargs, mode, pc, exc, failedAt, handlerExc, events,
          input, partitioned, desc, lookup, settings, envs, controller, waited>>

config == <<worker, job, jobargs, mode, input, partitioned, controller>>
packres == <<desc, lookup>>
aside == <<settings, envs, waited>>

----------------------------------------------------------------------------
\* Exception classes as the except clauses of main tell them apart.
\* "Exception" is any other class deriving from Exception (KeyError, TypeError,
\* a user error); "BaseException" is one outside that hierarchy (SystemExit,
\* KeyboardInterrupt), which neither except clause of main names.
Retryable == {"DataError", "EnvironmentError", "MemoryError"}
ExcKinds == Retryable \cup {"Exception", "BaseException"}

TerminalSignals == {"WorkerDone", "DataUnavailable", "TaskFailed"}
Messages == TerminalSignals \cup {"AnnouncePID", "Status"}

\* Worker.defaults
defaults ==
    [map |-> None, merge_partitions |-> FALSE, reduce |-> None, save |-> FALSE,
     partitions |-> 1, profile |-> FALSE]

\* dict.get(key): the stored value, None for a key the dict does not hold
Get(w, key) == IF key \in DOMAIN w THEN w[key] ELSE None

\* Mutant of getitem: the job attribute is consulted before the call-time arguments.
getitem_JobFirst(w, key, j, args) ==
    IF key \in DOMAIN j THEN j[key]
    ELSE IF key \in DOMAIN args THEN args[key]
    ELSE Get(w, key)

\* Worker.getitem
getitem(w, key, j, args) ==
    IF key \in DOMAIN args THEN args[key]
    ELSE IF key \in DOMAIN j THEN j[key]
    ELSE Get(w, key)

\* The function f restricted to the keys D: a mapping that carries only those keys.
Restrict(f, D) == [k \in D |-> f[k]]

\* Worker.__init__(**kwargs): the defaults, updated with the keyword arguments
Construct(kwargs) ==
    [k \in DOMAIN defaults \cup DOMAIN kwargs |->
        IF k \in DOMAIN kwargs THEN kwargs[k] ELSE defaults[k]]

\* The Worker dicts built from keyword arguments for some of the keys of F,
\* with the values F gives them.
Workers(F) == {Construct(Restrict(f, D)) : f \in F, D \in SUBSET DOMAIN defaults}

\* Python truth of the values the model stores: None, False and 0 are falsy.
TruthyFn(v) == v # None
TruthyInt(v) == v # 0

\* No call of jobdict / getitem has been made yet.
NoDesc == [status |-> "none", has_map |-> FALSE, has_reduce |-> FALSE, nr_reduces |-> 0]
NoLookup == [status |-> "none", key |-> "none"]

----------------------------------------------------------------------------
(* The worker runtime: Worker.main, Worker.start, Worker.run, Worker.end.  *)

Modes == {"map", "reduce", "other"}

\* The state after the process has started and before main's try block: the
\* job pack the controller holds is any (specification, job, jobargs) triple
\* and the task it will hand out has any mode.
InitMain ==
    /\ worker \in Workers([map : {None, Fn}, merge_partitions : {FALSE},
                             reduce : {None, Fn}, save : BOOLEAN, partitions : {1},
                             profile : BOOLEAN])
    /\ job \in {Restrict(f, D) : f \in [profile : BOOLEAN], D \in SUBSET {"profile"}}
    /\ jobargs \in {Restrict(f, D) : f \in [profile : BOOLEAN, save : BOOLEAN],
                                     D \in SUBSET {"profile", "save"}}
    /\ mode \in Modes
    /\ pc = "wrap_stdin"
    /\ exc = "none"
    /\ failedAt = "none"
    /\ handlerExc = "none"
    /\ events = <<>>
    /\ input = <<>>
    /\ partitioned = FALSE
    /\ desc = NoDesc
    /\ lookup = NoLookup
    /\ settings = <<>>
    /\ envs = <<>>
    /\ controller = "answers"
    /\ waited = 0

\* A statement raises: the exception leaves start/run/end (none of them has a
\* try block) and reaches the try block of main.
Raise(step, kind) ==
    /\ exc' = kind
    /\ failedAt' = step
    /\ pc' = "except"

\* A statement completes: ev records what it did, and control moves on.
Done(ev, next) ==
    /\ events' = Append(events, ev)
    /\ pc' = next
    /\ UNCHANGED <<exc, failedAt>>

\* A call that either completes or raises an exception of any class.
Call(step, ev, next) ==
    /\ \/ Done(ev, next)
       \/ /\ \E k \in ExcKinds : Raise(step, k)
          /\ UNCHANGED events
    /\ UNCHANGED <<config, packres, aside, handlerExc>>

\* sys.stdin = NonBlockingInput(sys.stdin, timeout=600)
MainWrapStdin ==
    /\ pc = "wrap_stdin"
    /\ Call("wrap_stdin", "stdin_wrapped", "wrap_stdout")

\* Mutant of MainWrapStdout: the output channel is left as it was.
MainWrapStdout_Skipped ==
    /\ pc = "wrap_stdout"
    /\ pc' = "announce"
    /\ UNCHANGED <<config, packres, aside, exc, failedAt, handlerExc, events>>

\* sys.stdout = MessageWriter()
MainWrapStdout ==
    /\ pc = "wrap_stdout"
    /\ Call("wrap_stdout", "stdout_wrapped", "announce")

\* Mutant of MainAnnounce: the job pack is requested before the announcement.
MainAnnounce_AfterRequest ==
    /\ pc = "announce"
    /\ events' = events \o <<"JobPack.request", "AnnouncePID">>
    /\ pc' = "unpack"
    /\ UNCHANGED <<config, packres, aside, exc, failedAt, handlerExc>>

\* AnnouncePID(str(os.getpid())).send()
MainAnnounce ==
    /\ pc = "announce"
    /\ Call("announce", "AnnouncePID", "request_jobpack")

\* The controller never answers the request made at this statement.
Silent(step) ==
    \/ step = "request_jobpack" /\ controller = "silent_jobpack"
    \/ step = "request_task" /\ controller = "silent_task"

\* What a read from the controller raises when its timeout is exceeded: a
\* read failure, an exception of the Exception hierarchy.
ReadFailureKinds == Retryable \cup {"Exception"}

\* The read behind a request fails: the timeout set up at the head of main is
\* exceeded and the read raises.
ReadFails(step) ==
    /\ waited = ReadTimeout
    /\ \E k \in ReadFailureKinds : Raise(step, k)
    /\ UNCHANGED <<config, packres, aside, handlerExc, events>>

\* The non-blocking read finds no data yet and keeps waiting, one time unit
\* at a time, up to the timeout.
ReadWait ==
    /\ Silent(pc)
    /\ waited < ReadTimeout
    /\ waited' = waited + 1
    /\ UNCHANGED <<config, packres, settings, envs, pc, exc, failedAt, handlerExc, events>>

\* Mutant of MainRequestJobPack: the read from the controller has no timeout.
MainRequestJobPack_NoTimeout ==
    /\ pc = "request_jobpack"
    /\ ~Silent("request_jobpack")
    /\ Call("request_jobpack", "JobPack.request", "unpack")

\* JobPack.request(): the controller answers (or the request fails some
\* other way), or it never does and the read runs into the timeout
MainRequestJobPack ==
    /\ pc = "request_jobpack"
    /\ \/ /\ ~Silent("request_jobpack")
          /\ Call("request_jobpack", "JobPack.request", "unpack")
       \/ /\ Silent("request_jobpack")
          /\ ReadFails("request_jobpack")

\* cls.unpack(jobpack): an ImportError of the entry module is passed over, so
\* what can leave unpack is what cPickle.loads raises.
MainUnpack ==
    /\ pc = "unpack"
    /\ Call("unpack", "unpack", "request_task")

\* Mutant of MainRequestTask: WorkerDone is sent before worker.start is called.
MainRequestTask_DoneEarly ==
    /\ pc = "request_task"
    /\ events' = events \o <<"Task.request", "WorkerDone">>
    /\ pc' = "set_mem_limit"
    /\ UNCHANGED <<config, packres, aside, exc, failedAt, handlerExc>>

\* Task.request(), after which main enters worker.start(task, job, **jobargs)
MainRequestTask ==
    /\ pc = "request_task"
    /\ \/ /\ ~Silent("request_task")
          /\ Call("request_task", "Task.request", "set_mem_limit")
       \/ /\ Silent("request_task")
          /\ ReadFails("request_task")

\* Mutant of StartSetMemLimit: the failure of set_mem_limit is passed over.
StartSetMemLimit_Swallow ==
    /\ pc = "set_mem_limit"
    /\ \/ /\ events' = events \o <<"start", "set_mem_limit">>
          /\ pc' = "run"
          /\ UNCHANGED <<exc, failedAt>>
       \/ /\ events' = Append(events, "start")
          /\ pc' = "run"
          /\ failedAt' = "set_mem_limit"
          /\ UNCHANGED exc
    /\ UNCHANGED <<config, packres, aside, handlerExc>>

\* Worker.start, first statement: set_mem_limit(job.settings['DISCO_WORKER_MAX_MEM'])
StartSetMemLimit ==
    /\ pc = "set_mem_limit"
    /\ \/ /\ events' = events \o <<"start", "set_mem_limit">>
          /\ pc' = "run"
          /\ UNCHANGED <<exc, failedAt>>
       \/ /\ events' = Append(events, "start")
          /\ \E k \in ExcKinds : Raise("set_mem_limit", k)
    /\ UNCHANGED <<config, packres, aside, handlerExc>>

\* The resolved profile flag of Worker.start
Profiled == getitem(worker, "profile", job, jobargs)

\* Mutant of StartRun: the profile flag is not looked at.
StartRun_NoProfile ==
    /\ pc = "run"
    /\ \/ /\ mode \notin DOMAIN worker
          /\ events' = Append(events, "run")
          /\ Raise("run", "Exception")
       \/ /\ mode \in DOMAIN worker
          /\ ~TruthyFn(worker[mode])
          /\ events' = Append(events, "run")
          /\ Raise("run", "Exception")
       \/ /\ mode \in DOMAIN worker
          /\ TruthyFn(worker[mode])
          /\ events' = events \o <<"run", "fn">>
          /\ \/ /\ pc' = "end"
                /\ UNCHANGED <<exc, failedAt>>
             \/ \E k \in ExcKinds : Raise("run", k)
    /\ UNCHANGED <<config, packres, aside, handlerExc>>

\* Mutant of StartRun: a mode the dict does not hold is passed over
\* (self.get(task.mode)).
StartRun_Lenient ==
    /\ pc = "run"
    /\ \/ /\ mode \notin DOMAIN worker
          /\ events' = Append(events, "run")
          /\ pc' = "end"
          /\ UNCHANGED <<exc, failedAt>>
       \/ /\ mode \in DOMAIN worker
          /\ ~TruthyFn(worker[mode])
          /\ events' = Append(events, "run")
          /\ Raise("run", "Exception")
       \/ /\ mode \in DOMAIN worker
          /\ TruthyFn(worker[mode])
          /\ events' = events \o <<"run", "fn">>
          /\ \/ /\ pc' = IF Profiled THEN "put" ELSE "end"
                /\ UNCHANGED <<exc, failedAt>>
             \/ \E k \in ExcKinds : Raise("run", k)
    /\ UNCHANGED <<config, packres, aside, handlerExc>>

\* Worker.start's call of Worker.run, under cProfile.runctx when the profile
\* flag is set, and Worker.run itself: self[task.mode](task, job, **jobargs).
\* A mode that is no key of the dict raises KeyError, a key that holds None
\* raises TypeError; otherwise the task function runs, and returns or raises.
StartRun ==
    /\ pc = "run"
    /\ \/ /\ mode \notin DOMAIN worker
          /\ events' = Append(events, "run")
          /\ Raise("run", "Exception")
       \/ /\ mode \in DOMAIN worker
          /\ ~TruthyFn(worker[mode])
          /\ events' = Append(events, "run")
          /\ Raise("run", "Exception")
       \/ /\ mode \in DOMAIN worker
          /\ TruthyFn(worker[mode])
          /\ events' = events \o <<"run", "fn">>
          /\ \/ /\ pc' = IF Profiled THEN "put" ELSE "end"
                /\ UNCHANGED <<exc, failedAt>>
             \/ \E k \in ExcKinds : Raise("run", k)
    /\ UNCHANGED <<config, packres, aside, handlerExc>>

\* task.put(name, open(path).read()) on the profiled path: reading the trace
\* may raise before put is called, and put may raise
StartPut ==
    /\ pc = "put"
    /\ \/ /\ events' = Append(events, "put")
          /\ pc' = "end"
          /\ UNCHANGED <<exc, failedAt>>
       \/ /\ events' = Append(events, "put")
          /\ \E k \in ExcKinds : Raise("put", k)
       \/ /\ UNCHANGED events
          /\ \E k \in ExcKinds : Raise("put", k)
    /\ UNCHANGED <<config, packres, aside, handlerExc>>

\* Mutant of EndOp: the output is saved whenever the save flag is set.
EndOp_SaveFlagOnly == IF ~worker["save"] THEN "send" ELSE "save"

\* The test of Worker.end:
\*   not self['save'] or (task.mode == 'map' and self['reduce'])
EndOp ==
    IF ~worker["save"] \/ (mode = "map" /\ TruthyFn(worker["reduce"]))
    THEN "send" ELSE "save"

\* Worker.end up to task.send() / task.save(), which returns or raises
End ==
    /\ pc = "end"
    /\ events' = events \o <<"end", EndOp>>
    /\ \/ /\ pc' = "status"
          /\ UNCHANGED <<exc, failedAt>>
       \/ \E k \in ExcKinds : Raise("end", k)
    /\ UNCHANGED <<config, packres, aside, handlerExc>>

\* Mutant of EndStatus: a failure of the status note is passed over.
EndStatus_Swallow ==
    /\ pc = "status"
    /\ pc' = "worker_done"
    /\ \/ events' = Append(events, "Status")
       \/ UNCHANGED events
    /\ UNCHANGED <<config, packres, aside, exc, failedAt, handlerExc>>

\* Status("Results sent to master").send() / Status("Results saved to DDFS").send()
EndStatus ==
    /\ pc = "status"
    /\ Call("status", "Status", "worker_done")

\* WorkerDone().send(), the last statement of main's try block
MainWorkerDone ==
    /\ pc = "worker_done"
    /\ Call("worker_done", "WorkerDone", "returned")

\* An except clause of main: the signal is sent and the exception re-raised,
\* or the send itself raises and that exception leaves main instead.
Handle(signal) ==
    /\ pc' = "raised"
    /\ \/ /\ events' = Append(events, signal)
          /\ UNCHANGED handlerExc
       \/ /\ handlerExc' \in ExcKinds
          /\ UNCHANGED events
    /\ UNCHANGED <<config, packres, aside, exc, failedAt>>

\* except (DataError, EnvironmentError, MemoryError), e:
MainExceptDataUnavailable ==
    /\ pc = "except"
    /\ exc \in Retryable
    /\ Handle("DataUnavailable")

\* Mutant of MainExceptTaskFailed: the clause reports a retryable failure.
MainExceptTaskFailed_AsData ==
    /\ pc = "except"
    /\ exc = "Exception"
    /\ Handle("DataUnavailable")

\* Mutant of MainExceptTaskFailed: the clause does not re-raise.
MainExceptTaskFailed_NoRaise ==
    /\ exc = "Exception"
    /\ pc = "except"
    /\ pc' = "returned"
    /\ events' = Append(events, "TaskFailed")
    /\ UNCHANGED <<config, packres, aside, exc, failedAt, handlerExc>>

\* Mutant of MainExceptTaskFailed: control falls through to the end of the try block.
MainExceptTaskFailed_FallThrough ==
    /\ exc = "Exception"
    /\ pc = "except"
    /\ pc' = "worker_done"
    /\ events' = Append(events, "TaskFailed")
    /\ UNCHANGED <<config, packres, aside, exc, failedAt, handlerExc>>

\* except Exception, e:
MainExceptTaskFailed ==
    /\ pc = "except"
    /\ exc = "Exception"
    /\ Handle("TaskFailed")

\* No except clause of main names the exception: it leaves main as it is.
MainUncaught ==
    /\ pc = "except"
    /\ exc \notin Retryable \cup {"Exception"}
    /\ pc' = "raised"
    /\ UNCHANGED <<config, packres, aside, exc, failedAt, handlerExc, events>>

NextMain ==
    \/ MainWrapStdin
    \/ MainWrapStdout
    \/ MainAnnounce
    \/ MainRequestJobPack
    \/ MainUnpack
    \/ MainRequestTask
    \/ StartSetMemLimit
    \/ StartRun
    \/ StartPut
    \/ End
    \/ EndStatus
    \/ MainWorkerDone
    \/ MainExceptDataUnavailable
    \/ MainExceptTaskFailed
    \/ MainUncaught

Spec == InitMain /\ [][NextMain]_vars

\* The runtime for job packs in which the job and the call-time arguments
\* carry map / reduce themselves, beside the specification.
InitOverrides ==
    /\ worker \in Workers([map : {None, Fn}, merge_partitions : {FALSE},
                             reduce : {None, Fn}, save : {FALSE}, partitions : {1},
                             profile : BOOLEAN])
    /\ job \in {Restrict(f, D) : f \in [reduce : {Fn}], D \in SUBSET {"reduce"}}
    /\ jobargs \in {Restrict(f, D) : f \in [map : {None, Fn}], D \in SUBSET {"map"}}
    /\ mode \in {"map", "reduce"}
    /\ pc = "wrap_stdin"
    /\ exc = "none"
    /\ failedAt = "none"
    /\ handlerExc = "none"
    /\ events = <<>>
    /\ input = <<>>
    /\ partitioned = FALSE
    /\ desc = NoDesc
    /\ lookup = NoLookup
    /\ settings = <<>>
    /\ envs = <<>>
    /\ controller = "answers"
    /\ waited = 0

SpecOverrides == InitOverrides /\ [][NextMain]_vars

\* The runtime facing a controller that answers every request, never answers
\* the request for the job pack, or never answers the request for the task.
InitTimeout ==
    /\ worker \in Workers([map : {Fn}, merge_partitions : {FALSE}, reduce : {None},
                             save : BOOLEAN, partitions : {1}, profile : BOOLEAN])
    /\ job = <<>>
    /\ jobargs = <<>>
    /\ mode = "map"
    /\ controller \in {"answers", "silent_jobpack", "silent_task"}
    /\ pc = "wrap_stdin"
    /\ exc = "none"
    /\ failedAt = "none"
    /\ handlerExc = "none"
    /\ events = <<>>
    /\ input = <<>>
    /\ partitioned = FALSE
    /\ desc = NoDesc
    /\ lookup = NoLookup
    /\ settings = <<>>
    /\ envs = <<>>
    /\ waited = 0

NextTimeout ==
    \/ NextMain
    \/ ReadWait

\* The process is single-threaded and keeps executing: whenever it has a next
\* statement to run, or a read to wait on while time passes, it goes on.
SpecTimeout == InitTimeout /\ [][NextTimeout]_vars /\ WF_vars(NextTimeout)

----------------------------------------------------------------------------
(* The client side: Worker.jobdict.                                        *)

\* int(id) for every (id, url) entry of read_index(dir), for every dir of input
AllIds(inp) == UNION {inp[i] : i \in DOMAIN inp}

Max(S) == CHOOSE x \in S : \A y \in S : y <= x

\* Mutant of nr_reduces: the fallback "or 1" for a falsy partitions value is missing.
nr_reduces_NoFallback(has_map, parts, merge, inp, part) ==
    IF merge THEN 1
    ELSE IF has_map THEN parts
    ELSE IF part THEN 1 + Max(AllIds(inp))
    ELSE 1

\* Mutant of nr_reduces: only the index of the first input is scanned.
nr_reduces_FirstInputOnly(has_map, parts, merge, inp, part) ==
    IF merge THEN 1
    ELSE IF has_map THEN (IF TruthyInt(parts) THEN parts ELSE 1)
    ELSE IF part THEN 1 + Max(inp[1] \cup {0})
    ELSE 1

\* The nr_reduces block of Worker.jobdict, for a call in which max() has
\* something to scan; the merge_partitions test is the last statement.
nr_reduces(has_map, parts, merge, inp, part) ==
    IF merge THEN 1
    ELSE IF has_map THEN (IF TruthyInt(parts) THEN parts ELSE 1)
    ELSE IF part THEN 1 + Max(AllIds(inp))
    ELSE 1

\* Worker.jobdict: the descriptor, or the ValueError of max() over no entries,
\* which is raised before merge_partitions is looked at.
jobdict(w, j, args, inp, part) ==
    LET has_map == TruthyFn(getitem(w, "map", j, args))
        has_reduce == TruthyFn(getitem(w, "reduce", j, args))
        parts == getitem(w, "partitions", j, args)
        merge == getitem(w, "merge_partitions", j, args)
    IN  IF ~has_map /\ part /\ AllIds(inp) = {}
        THEN [NoDesc EXCEPT !.status = "raise"]
        ELSE [status |-> "ok", has_map |-> has_map, has_reduce |-> has_reduce,
              nr_reduces |-> nr_reduces(has_map, parts, merge, inp, part)]

\* Sequences over S of length at most n
SeqUpTo(S, n) == UNION {[1..m -> S] : m \in 0..n}

\* A specification, a job and call-time arguments as the client builds them,
\* and an input list as inputlist() resolved it: partitions is 0 (standing
\* for any falsy value) or a positive integer.
InitPack ==
    /\ worker \in Workers([map : {None, Fn}, merge_partitions : BOOLEAN,
                             reduce : {None, Fn}, save : {FALSE},
                             partitions : 0..MaxPartitions, profile : {FALSE}])
    /\ job \in {Restrict(f, D) : f \in [partitions : {2}], D \in SUBSET {"partitions"}}
    /\ jobargs \in {Restrict(f, D) :
                       f \in [partitions : {0, MaxPartitions}, merge_partitions : BOOLEAN],
                       D \in SUBSET {"partitions", "merge_partitions"}}
    /\ input \in SeqUpTo(SUBSET (0..MaxId), MaxInputs)
    /\ partitioned \in BOOLEAN
    /\ mode = "map"
    /\ pc = "client"
    /\ exc = "none"
    /\ failedAt = "none"
    /\ handlerExc = "none"
    /\ events = <<>>
    /\ desc = NoDesc
    /\ lookup = NoLookup
    /\ settings = <<>>
    /\ envs = <<>>
    /\ controller = "answers"
    /\ waited = 0

\* worker.jobdict(job, **jobargs)
JobDict ==
    /\ pc = "client"
    /\ desc = NoDesc
    /\ desc' = jobdict(worker, job, jobargs, input, partitioned)
    /\ UNCHANGED <<config, aside, lookup, pc, exc, failedAt, handlerExc, events>>

NextPack == JobDict

SpecPack == InitPack /\ [][NextPack]_vars

----------------------------------------------------------------------------
(* The client side: Worker.getitem.                                        *)

\* The keys looked up: those of the specification, and 'input', which the
\* specification does not hold.
LookupKeys == {"map", "save", "partitions", "input"}

InitLookup ==
    /\ worker \in Workers([map : {None, Fn}, merge_partitions : {FALSE},
                             reduce : {None}, save : BOOLEAN,
                             partitions : 0..MaxPartitions, profile : {FALSE}])
    /\ job \in {Restrict(f, D) : f \in [map : {None, Fn}, save : BOOLEAN],
                                 D \in SUBSET {"map", "save"}}
    /\ jobargs \in {Restrict(f, D) :
                       f \in [map : {None, Fn}, save : BOOLEAN, input : {"raw://0"}],
                       D \in SUBSET {"map", "save", "input"}}
    /\ input = <<>>
    /\ partitioned = FALSE
    /\ mode = "map"
    /\ pc = "client"
    /\ exc = "none"
    /\ failedAt = "none"
    /\ handlerExc = "none"
    /\ events = <<>>
    /\ desc = NoDesc
    /\ lookup = NoLookup
    /\ settings = <<>>
    /\ envs = <<>>
    /\ controller = "answers"
    /\ waited = 0

\* worker.getitem(key, job, **jobargs): the value returned, with the three
\* layers as they are when the call returns
GetItem(key) ==
    /\ pc = "client"
    /\ lookup' = [status |-> "ok", key |-> key,
                  value |-> getitem(worker, key, job, jobargs),
                  spec |-> worker, job |-> job, args |-> jobargs]
    /\ UNCHANGED <<config, aside, desc, pc, exc, failedAt, handlerExc, events>>

NextLookup == \E key \in LookupKeys : GetItem(key)

SpecLookup == InitLookup /\ [][NextLookup]_vars

----------------------------------------------------------------------------
(* The client side: Worker.jobenvs.                                        *)

\* settings.get(key, default)
GetOr(st, key, default) == IF key \in DOMAIN st THEN st[key] ELSE default

\* settings[key] = value, on the mapping itself
SetItem(st, key, value) ==
    [k \in DOMAIN st \cup {key} |-> IF k = key THEN value ELSE st[k]]

\* ':'.join((a, b)), on values held as the tuples of their ':'-separated parts
Join(a, b) == a \o b

\* The three assignments of Worker.jobenvs, made on job.settings: what the
\* job's settings hold when jobenvs returns
jobenvs_settings(st) ==
    LET s1 == SetItem(st, "LC_ALL", <<"C">>)
        s2 == SetItem(s1, "LD_LIBRARY_PATH", <<"lib">>)
    IN  SetItem(s2, "PYTHONPATH", Join(GetOr(s2, "PYTHONPATH", <<"">>), <<"lib">>))

\* settings.env: the environment mapping derived from the settings
EnvOf(st) == st

\* Module search paths of up to MaxPath entries
Paths == UNION {[1..n -> {"/a", "lib"}] : n \in 1..MaxPath}

\* A job whose settings carry any of the four names, and no call made yet
InitEnv ==
    /\ settings \in {Restrict(f, D) :
                        f \in [LC_ALL : {<<"C">>, <<"en_US">>},
                               LD_LIBRARY_PATH : {<<"lib">>, <<"/usr/lib">>},
                               PYTHONPATH : Paths,
                               DISCO_JOB_OWNER : {<<"u">>}],
                        D \in SUBSET {"LC_ALL", "LD_LIBRARY_PATH", "PYTHONPATH",
                                      "DISCO_JOB_OWNER"}}
    /\ envs = <<>>
    /\ worker = defaults
    /\ job = <<>>
    /\ jobargs = <<>>
    /\ input = <<>>
    /\ partitioned = FALSE
    /\ mode = "map"
    /\ pc = "client"
    /\ exc = "none"
    /\ failedAt = "none"
    /\ handlerExc = "none"
    /\ events = <<>>
    /\ desc = NoDesc
    /\ lookup = NoLookup
    /\ controller = "answers"
    /\ waited = 0

\* worker.jobenvs(job, **jobargs): the settings as the call found them, and
\* the environment it returned
JobEnvs ==
    /\ pc = "client"
    /\ Len(envs) < MaxCalls
    /\ settings' = jobenvs_settings(settings)
    /\ envs' = Append(envs, [before |-> settings,
                             env |-> EnvOf(jobenvs_settings(settings))])
    /\ UNCHANGED <<config, packres, waited, pc, exc, failedAt, handlerExc, events>>

NextEnv == JobEnvs

SpecEnv == InitEnv /\ [][NextEnv]_vars

----------------------------------------------------------------------------
(* What the client-side calls have returned.                               *)

\* C11 as stated: Worker.jobenvs only reads the job's settings: after a call
\* they hold the keys and values they held before it, and the environment
\* returned carries LC_ALL, LD_LIBRARY_PATH and the module search path with
\* 'lib' appended.
C11_SettingsOnlyRead ==
    envs # <<>> =>
        LET last == envs[Len(envs)]
        IN  /\ settings = last.before
            /\ last.env["LC_ALL"] = <<"C">>
            /\ last.env["LD_LIBRARY_PATH"] = <<"lib">>
            /\ last.env["PYTHONPATH"] =
                   (IF "PYTHONPATH" \in DOMAIN last.before
                    THEN last.before["PYTHONPATH"] ELSE <<"">>) \o <<"lib">>

\* C19 as stated: two calls of Worker.jobenvs in a row for the same job return
\* the same environment, the module search path carrying 'lib' appended once.
C19_JobEnvsIdempotent ==
    Len(envs) >= 2 =>
        /\ envs[2].env = envs[1].env
        /\ envs[2].env["PYTHONPATH"] =
               (IF "PYTHONPATH" \in DOMAIN envs[1].before
                THEN envs[1].before["PYTHONPATH"] ELSE <<"">>) \o <<"lib">>

\* The values jobdict resolved for the call recorded in desc.
ResolvedMap == getitem(worker, "map", job, jobargs)
ResolvedPartitions == getitem(worker, "partitions", job, jobargs)
ResolvedMerge == getitem(worker, "merge_partitions", job, jobargs)

\* C6: whenever Worker.jobdict returns a descriptor, its nr_reduces is an
\* integer >= 1, for partitions 0 (falsy) or positive, any merge_partitions,
\* map present or absent, input partitioned or not.
C6_NrReducesAtLeastOne ==
    desc.status = "ok" => (desc.nr_reduces \in Nat /\ desc.nr_reduces >= 1)

\* C6 witness: jobdict returned for a map job whose resolved partitions value
\* is falsy, the case the fallback is there for.
C6_Witness ==
    /\ desc.status = "ok"
    /\ desc.has_map
    /\ ResolvedPartitions = 0
    /\ ~ResolvedMerge
    /\ desc.nr_reduces = 1

\* The largest partition id any index entry of any input carries.
C8_MaxId ==
    CHOOSE m \in AllIds(input) : \A i \in DOMAIN input : \A id \in input[i] : id <= m

\* C8: the nr_reduces of a returned descriptor is 1 when the resolved
\* merge_partitions is true; otherwise the resolved partitions (1 when it is
\* falsy) with a map, 1 + the largest partition id over all entries of all
\* inputs without a map on partitioned input, and 1 in the remaining case.
C8_NrReducesFormula ==
    desc.status = "ok" =>
        desc.nr_reduces =
            CASE ResolvedMerge -> 1
              [] ~ResolvedMerge /\ ResolvedMap # None ->
                    (IF ResolvedPartitions = 0 THEN 1 ELSE ResolvedPartitions)
              [] ~ResolvedMerge /\ ResolvedMap = None /\ partitioned -> 1 + C8_MaxId
              [] OTHER -> 1

\* C8 witness: no map, partitioned input of two dirs whose largest id is in
\* the second, and the descriptor counts 1 + that id.
C8_Witness ==
    /\ desc.status = "ok"
    /\ ~desc.has_map
    /\ partitioned
    /\ ~ResolvedMerge
    /\ Len(input) = 2
    /\ input[1] = {0}
    /\ input[2] = {0, 1}
    /\ desc.nr_reduces = 2

\* C8, the override: merge_partitions collapses a multi-partition result.
C8_WitnessMerge ==
    /\ desc.status = "ok"
    /\ ResolvedMerge
    /\ desc.has_map
    /\ ResolvedPartitions > 1
    /\ desc.nr_reduces = 1

\* C7: getitem returns the call-time argument when the key is among them,
\* else the job's attribute when the job has it, else the specification's
\* stored value (None for a key it does not hold); and the three layers are
\* after the call what they were before it.
C7_Precedence ==
    lookup.status = "ok" =>
        /\ lookup.key \in DOMAIN jobargs => lookup.value = jobargs[lookup.key]
        /\ (lookup.key \notin DOMAIN jobargs /\ lookup.key \in DOMAIN job)
               => lookup.value = job[lookup.key]
        /\ (lookup.key \notin DOMAIN jobargs /\ lookup.key \notin DOMAIN job)
               => lookup.value = (IF lookup.key \in DOMAIN worker
                                  THEN worker[lookup.key] ELSE None)
        /\ lookup.spec = worker
        /\ lookup.job = job
        /\ lookup.args = jobargs

\* C7 witness: all three layers carry the key, with the call-time value unlike
\* the other two, and the call-time value came back.
C7_Witness ==
    /\ lookup.status = "ok"
    /\ lookup.key = "save"
    /\ "save" \in DOMAIN jobargs
    /\ "save" \in DOMAIN job
    /\ jobargs["save"] = TRUE
    /\ job["save"] = FALSE
    /\ worker["save"] = FALSE
    /\ lookup.value = TRUE

\* C7, the middle layer: the job attribute wins over the specification.
C7_WitnessJob ==
    /\ lookup.status = "ok"
    /\ lookup.key = "map"
    /\ "map" \notin DOMAIN jobargs
    /\ "map" \in DOMAIN job
    /\ job["map"] = Fn
    /\ worker["map"] = None
    /\ lookup.value = Fn

----------------------------------------------------------------------------
(* What an execution of main has shown so far.                             *)

\* main has left: by returning, or with an exception
Finished == pc \in {"returned", "raised"}

Has(ev) == \E i \in DOMAIN events : events[i] = ev
Count(ev) == Len(SelectSeq(events, LAMBDA e : e = ev))

\* The protocol messages emitted so far, and the terminal signals among them.
\* A message counts as emitted when its send has returned.
Msgs == SelectSeq(events, LAMBDA e : e \in Messages)
Terminals == SelectSeq(events, LAMBDA e : e \in TerminalSignals)

\* Every b in the events comes after some a.
Precedes(a, b) ==
    \A i \in DOMAIN events :
        events[i] = b => \E h \in 1..(i - 1) : events[h] = a

\* The statements the steps announce / unpack / task request / start consist of.
ClassifiedSteps ==
    {"announce", "request_jobpack", "unpack", "request_task",
     "set_mem_limit", "run", "put", "end", "status"}

\* C1 as stated: every finished execution of main, whatever was raised and
\* wherever (the sends of the signals included), has emitted exactly one
\* terminal signal.
C1_ExactlyOneTerminalAlways == Finished => Len(Terminals) = 1

\* C1, amended: a finished execution of main has emitted at most one terminal
\* signal, and exactly one unless the exception that reached the except
\* clauses is outside the Exception hierarchy or the send inside the except
\* clause itself raised; in those two cases it has emitted none.
C1_ExactlyOneTerminalUnlessLost ==
    Finished =>
        Len(Terminals) = (IF exc = "BaseException" \/ handlerExc # "none" THEN 0 ELSE 1)

\* C1 witness: main has finished after a failure inside start and emitted its
\* one terminal signal.
C1_Witness ==
    /\ pc = "raised"
    /\ failedAt = "run"
    /\ exc = "MemoryError"
    /\ Terminals = <<"DataUnavailable">>

\* C2 as stated: a retryable exception in announce / unpack / task request /
\* start ends with DataUnavailable, any other exception there with
\* TaskFailed, and their completion with WorkerDone (executions in which the
\* send of the failure signal itself raised are left aside).
C2_ClassificationAsStated ==
    (Finished /\ handlerExc = "none") =>
        /\ (failedAt \in ClassifiedSteps /\ exc \in Retryable)
               => Terminals = <<"DataUnavailable">>
        /\ (failedAt \in ClassifiedSteps /\ exc \notin Retryable)
               => Terminals = <<"TaskFailed">>
        /\ failedAt \notin ClassifiedSteps \cup {"wrap_stdin", "wrap_stdout"}
               => Terminals = <<"WorkerDone">>

\* The terminal signals the except clauses of main stand for.
Classified ==
    IF handlerExc # "none" THEN <<>>
    ELSE IF exc = "none" THEN <<"WorkerDone">>
    ELSE IF exc \in Retryable THEN <<"DataUnavailable">>
    ELSE IF exc = "Exception" THEN <<"TaskFailed">>
    ELSE <<>>

\* C2, amended: when main has finished, the terminal signals emitted are:
\* DataUnavailable for a DataError, EnvironmentError or MemoryError raised by
\* any statement of the try block (WorkerDone's own send included),
\* TaskFailed for any other exception deriving from Exception, WorkerDone
\* when every statement including WorkerDone's send completed, and none for
\* an exception outside the Exception hierarchy or when the send of the
\* failure signal itself raised.
C2_Classification == Finished => Terminals = Classified

\* C2 witness: the three outcomes are told apart; here a KeyError-like failure
\* of the task function ended with TaskFailed.
C2_Witness ==
    /\ pc = "raised"
    /\ failedAt = "run"
    /\ exc = "Exception"
    /\ Has("fn")
    /\ Terminals = <<"TaskFailed">>

\* C3: once a terminal signal has been emitted, nothing more is emitted or
\* done: no message, no request, no task.send / save / put.
C3_TerminalIsLast == [][Terminals # <<>> => events' = events]_vars

\* C3 witness: a terminal signal was emitted after the task output was sent,
\* and main has left.
C3_Witness ==
    /\ Finished
    /\ Has("send")
    /\ Has("Status")
    /\ Terminals # <<>>
    /\ events[Len(events)] \in TerminalSignals

\* The table of the claim: which of send / save the output takes.
C4_Table ==
    IF worker["save"] = FALSE THEN "send"
    ELSE IF mode = "map" /\ worker["reduce"] # None THEN "send"
    ELSE "save"

\* C4: every invocation of Worker.end has invoked exactly one of task.send and
\* task.save, the one the table names (on the specification's stored save and
\* reduce values).
C4_EndSendsOrSaves ==
    Has("end") =>
        /\ Count("end") = 1
        /\ Count("send") + Count("save") = 1
        /\ Has(C4_Table)

\* C4 witness: end ran with save set on a map task that has a reduce stage, and sent.
C4_Witness ==
    /\ Has("end")
    /\ worker["save"]
    /\ mode = "map"
    /\ worker["reduce"] = Fn
    /\ Has("send")

\* C4 second case, reached as well: end saved the output of a reduce task.
C4_WitnessSave ==
    /\ Has("end")
    /\ worker["save"]
    /\ mode = "reduce"
    /\ Has("save")

C9_FirstMessageIsAnnounce == Msgs # <<>> => Msgs[1] = "AnnouncePID"

\* C9, amended: nothing precedes AnnouncePID: when it is emitted it is the
\* first message, and no package or task request is made before it; when
\* wrapping the channels or the send of AnnouncePID raises, the only message
\* emitted is the failure signal.
C9_NothingPrecedesAnnounce ==
    /\ Has("AnnouncePID") => (Msgs[1] = "AnnouncePID" /\ Count("AnnouncePID") = 1)
    /\ Precedes("AnnouncePID", "JobPack.request")
    /\ Precedes("AnnouncePID", "Task.request")
    /\ (Msgs # <<>> /\ ~Has("AnnouncePID")) =>
           /\ failedAt \in {"wrap_stdin", "wrap_stdout", "announce"}
           /\ Msgs \in {<<"DataUnavailable">>, <<"TaskFailed">>}

\* C9 witness: AnnouncePID was emitted, the requests were made and other
\* messages followed.
C9_Witness ==
    /\ Has("AnnouncePID")
    /\ Has("JobPack.request")
    /\ Has("Task.request")
    /\ Len(Msgs) >= 3

C12_SilentControllerEnds ==
    /\ [](Silent(failedAt) => waited = ReadTimeout)
    /\ (controller # "answers") ~> (pc = "raised" /\ Terminals = Classified)

\* C12 witness: the controller never sent the job pack, the read timed out
\* and main ended with DataUnavailable.
C12_Witness ==
    /\ controller = "silent_jobpack"
    /\ pc = "raised"
    /\ failedAt = "request_jobpack"
    /\ waited = ReadTimeout
    /\ exc = "EnvironmentError"
    /\ Terminals = <<"DataUnavailable">>

\* The save flag and the reduce setting as the three layers resolve them.
ResolvedSave == getitem(worker, "save", job, jobargs)
ResolvedReduce == getitem(worker, "reduce", job, jobargs)

\* Position of the first ev in the events (0 when there is none)
First(ev) ==
    IF Has(ev) THEN CHOOSE i \in DOMAIN events :
                        events[i] = ev /\ \A h \in 1..(i - 1) : events[h] # ev
    ELSE 0

\* C13 as stated: Worker.end sends or saves by the save flag and the reduce
\* setting resolved through call-time arguments, job attributes and the
\* specification, in that order.
C13_EndUsesResolvedFlags ==
    Has("end") =>
        Has(IF ~ResolvedSave \/ (mode = "map" /\ ResolvedReduce # None)
            THEN "send" ELSE "save")

\* C14: when the task's mode is no key of the specification, Worker.run fails
\* with an exception of the Exception hierarchy before any task function is
\* called, Worker.end is not entered, neither task.send nor task.save is
\* invoked, and the terminal signal main sends is TaskFailed: DataUnavailable
\* and WorkerDone are never emitted.
C14_UnknownModeFails ==
    (mode \notin DOMAIN worker /\ Has("run")) =>
        /\ failedAt = "run"
        /\ exc = "Exception"
        /\ ~Has("fn") /\ ~Has("end") /\ ~Has("send") /\ ~Has("save")
        /\ ~Has("DataUnavailable") /\ ~Has("WorkerDone")
        /\ Finished => (pc = "raised" /\
                        Terminals = (IF handlerExc = "none" THEN <<"TaskFailed">>
                                     ELSE <<>>))

\* C14 witness: a task of an unknown mode made Worker.run fail and main ended
\* with TaskFailed.
C14_Witness ==
    /\ mode = "other"
    /\ Has("run")
    /\ pc = "raised"
    /\ Terminals = <<"TaskFailed">>

\* C15 as stated: no message, a failure signal included, is emitted before
\* both channels are wrapped, and each is wrapped exactly once.
C15_NoMessageBeforeWrapping ==
    Msgs # <<>> =>
        /\ Count("stdin_wrapped") = 1
        /\ Count("stdout_wrapped") = 1
        /\ First("stdout_wrapped") < First(Msgs[1])

\* C15, amended: each channel is wrapped at most once, standard input first,
\* and never again; AnnouncePID, Status and WorkerDone are emitted only with
\* both channels wrapped; a message emitted with a channel not yet wrapped
\* is the DataUnavailable or TaskFailed signal that reports that the
\* wrapping itself raised, and it is the only message of that execution.
C15_WrappedOnceBeforeMessages ==
    /\ Count("stdin_wrapped") <= 1
    /\ Count("stdout_wrapped") <= 1
    /\ Precedes("stdin_wrapped", "stdout_wrapped")
    /\ \A m \in {"AnnouncePID", "Status", "WorkerDone"} : Precedes("stdout_wrapped", m)
    /\ (Msgs # <<>> /\ ~Has("stdout_wrapped")) =>
           /\ failedAt \in {"wrap_stdin", "wrap_stdout"}
           /\ Msgs \in {<<"DataUnavailable">>, <<"TaskFailed">>}
    /\ Has("stdout_wrapped") =>
           \A i \in DOMAIN events : events[i] \in Messages => First("stdout_wrapped") < i

\* C15 witness: both channels were wrapped once and messages followed.
C15_Witness ==
    /\ Count("stdin_wrapped") = 1
    /\ Count("stdout_wrapped") = 1
    /\ Has("AnnouncePID")
    /\ Has("Status")
    /\ Finished

\* The profile flag by the precedence of the layers.
C16_Profile ==
    IF "profile" \in DOMAIN jobargs THEN jobargs["profile"]
    ELSE IF "profile" \in DOMAIN job THEN job["profile"]
    ELSE worker["profile"]

\* C16: the task function runs at most once, and exactly once in a start that
\* reaches Worker.end; with the resolved profile flag true the profile is
\* attached with task.put after the function has run and before Worker.end
\* is entered; with the flag false task.put is never called; and the memory
\* ceiling is set before the function runs.
C16_ProfileAndMemLimit ==
    /\ Count("fn") <= 1
    /\ Count("put") <= 1
    /\ Precedes("set_mem_limit", "fn")
    /\ Precedes("fn", "put")
    /\ ~C16_Profile => ~Has("put")
    /\ Has("end") =>
           /\ Count("fn") = 1
           /\ C16_Profile =>
                  (Has("put") /\ First("fn") < First("put") /\ First("put") < First("end"))

\* C16 witness: a profiled task ran, its profile was attached, and end sent
\* the output.
C16_Witness ==
    /\ C16_Profile
    /\ Has("set_mem_limit")
    /\ Has("fn")
    /\ Has("put")
    /\ Has("end")
    /\ Has("send")

\* C16, the direct path, reached as well.
C16_WitnessDirect ==
    /\ ~C16_Profile
    /\ Has("fn")
    /\ Has("end")
    /\ ~Has("put")

\* C17 as stated: when the descriptor jobdict builds for a (specification,
\* job, call-time arguments) triple flags the stage of the task's mode as
\* present, Worker.run on the same triple reaches a function.
C17_DescriptorAndRunAgree ==
    LET d == jobdict(worker, job, jobargs, input, partitioned)
    IN  Has("run") =>
            /\ (mode = "map" /\ d.has_map) => Has("fn")
            /\ (mode = "reduce" /\ d.has_reduce) => Has("fn")

====
